---- MODULE Spec2Model ----
(***************************************************************************)
(* Domain assignment (noria/server/src/controller/migrate/assignment.rs)   *)
(* and the Soup aggregation operator (src/ops/aggregate.rs).               *)
(*                                                                         *)
(* Spec    : a controller that builds the data-flow graph in migrations    *)
(*           and runs assign() over each migration's new nodes.            *)
(* AggSpec : a materialized Aggregator (COUNT or SUM over the second       *)
(*           column of a two-column base) fed with updates and queried.    *)
(***************************************************************************)
EXTENDS Integers, Sequences, FiniteSets, TLC

\* ------------------------------------------------------------------------
\* Bounds of the model
\* ------------------------------------------------------------------------
MaxNodes == 4
MaxParents == 2
MaxShards == 2
MaxRestrictions == 2
MaxBatch == 2
MaxSrc == 2
MaxTs == 2
MaxOps == 4
MaxDomains == 2
MaxPackets == 3
MaxWalk == 2
MaxSourceShards == 2
MaxKeys == 2
MaxWrites == 2
MaxReads == 2
MaxInserts == 3
MaxRestarts == 2
MaxRows == 2
MaxChain == 2
MaxAdds == 2
MaxCols == 2
MaxFields == 2
MaxFrom == 2

\* ------------------------------------------------------------------------
\* State
\* ------------------------------------------------------------------------
VARIABLES
    kind,       \* node -> "source" | "base" | "reader" | "merger" | "sharder" | "internal" | "absent"
    shards,     \* node -> 0 for Sharding::None / ForcedNone, k > 0 for ByColumn(_, k)
    boundary,   \* node -> its name starts with "BOUNDARY_"
    parents,    \* node -> neighbors_directed(node, Incoming), in iteration order
    children,   \* node -> neighbors_directed(node, Outgoing), in iteration order
    domain,     \* node -> domain index, Unassigned while the node has none
    ndomains,   \* the controller's domain counter
    restr,      \* node_restrictions: set of <<base, shard, worker_volume>>
    nn,         \* number of nodes added to the graph so far (besides the source)
    next,       \* position of assign's loop: the next node of topo_list
    pc,         \* "migrate": a migration is adding nodes; "assign": assign is running
    last,       \* what the last iteration of assign's loop did, and for the call it
                \* belongs to: the first node of topo_list, ndomains at the call and
                \* the nodes that got a fresh domain (history)
    op,         \* Aggregator.op: "COUNT" or "SUM"
    srcRows,    \* the records the aggregator's source holds: row -> number of copies
    mat,        \* the aggregator's materialized output: set of [row, ts]
    inp,        \* the records of the last update handed to forward (history)
    out,        \* the records forward emitted for it (history)
    matBefore,  \* mat when that update arrived (history)
    undo,       \* a Positive(r) and the output of r's group before it (history)
    did,        \* the aggregator's last operation: "none", "process" or "query"
    qarg,       \* the group the last query asked for, NoGroup for a query without conditions
    qres,       \* the rows the last query returned
    votes,      \* the vote base table: set of <<id, user>>
    vcMat,      \* the materialized output of vc: set of [row, ts]
    toVc,       \* channel vote -> vc: queue of updates
    toJoin,     \* channel vc -> awvc: queue of updates
    toReader,   \* channel awvc -> reader: queue of updates
    readerRows, \* the reader's store: joined row -> number of copies
    hist,       \* the client's writes to vote so far (history)
    inbox,      \* domain -> the packets waiting in its inbox, in arrival order
    running,    \* domain -> the walks in progress: [pkt, at], at = the next node
    sent,       \* the number of packets handed to the data-flow so far
    arrived,    \* domain -> the packets in the order they entered its inbox (history)
    effects,    \* domain -> its state changes and emissions, in order (history)
    srcState,   \* source shard -> the rows of its full state, a row is <<key, id>>
    dataChan,   \* source shard -> the packets on their way down the replay path
    reqChan,    \* source shard -> the RequestPartialReplay keys on their way up
    pending,    \* the keys with a replay request outstanding at the destination
    missBuf,    \* key -> the packets buffered for (tag, key)
    gotLast,    \* key -> the source shards whose last piece has arrived
    filled,     \* the keys the destination has marked filled
    dstRows,    \* the destination's partial state: row -> number of copies
    nwrites,    \* the number of writes made to the source so far
    nreads,     \* the number of lookups made at the destination so far
    via,        \* how rows entered the destination: <<row, "replay" | "delta">> (history)
    raced,      \* the rows written while their key's replay was outstanding (history)
    served,     \* the lookups answered: [pkt, key, rows, lasts, wasFilled] (history)
    lastMiss,   \* what the last missing lookup did (history)
    upstream,   \* the number of rows inserted into the upstream table catch_up
    repl,       \* the replicator: "stopped", "snapshot" or "streaming"
    snapPos,    \* the upstream log position the running snapshot reads at
    replPos,    \* the upstream log position the replicator has read up to
    inputs,     \* the Input packets on their way to the base table: sequence numbers
    dfCount,    \* the number of copies of the row the view catch_up_view holds
    dfOffset,   \* the sequence number of the last write the base table applied
    snapshotted,\* the base table holds a snapshot
    restarts,   \* the number of times the replicator has been started
    upAtStop,   \* the value of upstream when the replicator was last stopped (history)
    colSpecs,   \* table -> column_specs of its Base MIR node: column names in order
    upCols,     \* table -> the columns of the upstream table, in order
    tblRows,    \* table -> the rows the base table holds, by position, in insertion order
    truth,      \* table -> for every row, the value inserted for each column (history)
    chain,      \* MIR nodes, chain[i + 1] the first ancestor of chain[i]: [type, columns, list, conds]
                \* conds: the filter conditions [col, rhs, rcol], rcol the column on the right
    nadds,      \* the number of add_column calls so far
    mirRet,     \* the last add_column call: [node, col, pos, panicked, before] (history)
    newQg,      \* check_compatibility's new_qg: [edges, preds]
    exQg,       \* check_compatibility's existing_qg: [edges, preds]
    implies,    \* the pairs <<np, ep>> for which complex_predicate_implies holds
    reuse,      \* what check_compatibility returned: "unset" before the call
    sqlQuery,   \* rewrite_count_star's self: [kind, tables, fields, groupBy, whereCols]
    writeSchemas, \* rewrite_count_star's write_schemas: table name -> column names
    rewritten   \* what rewrite_count_star returned: [status, q], status "unset" before the call

gvars == <<op, srcRows, mat, inp, out, matBefore, undo, did, qarg, qres>>
avars == <<kind, shards, boundary, parents, children, domain, ndomains, restr, nn, next, pc, last>>
evars == <<votes, vcMat, toVc, toJoin, toReader, readerRows, hist>>
dvars == <<inbox, running, sent, arrived, effects>>
rvars == <<srcState, dataChan, reqChan, pending, missBuf, gotLast, filled, dstRows,
           nwrites, nreads, via, raced, served, lastMiss>>
pvars == <<upstream, repl, snapPos, replPos, inputs, dfCount, dfOffset, snapshotted,
           restarts, upAtStop>>
tvars == <<colSpecs, upCols, tblRows, truth>>
mvars == <<chain, nadds, mirRet>>
wvars == <<newQg, exQg, implies, reuse>>
cvars == <<sqlQuery, writeSchemas, rewritten>>
xvars == <<evars, dvars, rvars, pvars, tvars, mvars, wvars, cvars>>
restOfE == <<avars, gvars, dvars, rvars, pvars, tvars, mvars, wvars, cvars>>
restOfD == <<avars, gvars, evars, rvars, pvars, tvars, mvars, wvars, cvars>>
restOfR == <<avars, gvars, evars, dvars, pvars, tvars, mvars, wvars, cvars>>
restOfP == <<avars, gvars, evars, dvars, rvars, tvars, mvars, wvars, cvars>>
restOfT == <<avars, gvars, evars, dvars, rvars, pvars, mvars, wvars, cvars>>
restOfM == <<avars, gvars, evars, dvars, rvars, pvars, tvars, wvars, cvars>>
restOfW == <<avars, gvars, evars, dvars, rvars, pvars, tvars, mvars, cvars>>
restOfC == <<avars, gvars, evars, dvars, rvars, pvars, tvars, mvars, wvars>>
vars == <<avars, gvars, xvars>>

Source == 0
Nodes == 1..MaxNodes
AllNodes == 0..MaxNodes
Unassigned == 0 - 1
NoNode == 0 - 1
Volumes == {"ssd", "hdd"}
NoStep == [node |-> NoNode, before |-> 0, friend |-> NoNode,
           first |-> NoNode, start |-> 0, fresh |-> {}]

\* the aggregator of the tests: source columns [x, y], aggregation over column 1
Cols == 2
Over == 1
Groups == {<<1>>, <<2>>}
Vals == {1, 2}
Rows == {g \o <<v>> : g \in Groups, v \in Vals}
QueryGroups == Groups
NoGroup == <<>>
Invalid == [r \in {} |-> 0]
NoUndo == [state |-> "none", row |-> <<>>, before |-> {}, after |-> {}]

\* the votes example of the crate documentation: the article table holds one row
Article == {[id |-> 1, title |-> "hello"]}
EmptyBag == [r \in {} |-> 0]

\* the votes pipeline before any write
VoteStart ==
    /\ votes = {}
    /\ vcMat = {}
    /\ toVc = <<>>
    /\ toJoin = <<>>
    /\ toReader = <<>>
    /\ readerRows = EmptyBag
    /\ hist = <<>>

\* the domains of a linear data-flow: domain d forwards to domain d + 1
Domains == 1..MaxDomains
Packets == 1..MaxPackets

\* the domains before any packet
DomainStart ==
    /\ inbox = [d \in Domains |-> <<>>]
    /\ running = [d \in Domains |-> <<>>]
    /\ sent = 0
    /\ arrived = [d \in Domains |-> <<>>]
    /\ effects = [d \in Domains |-> <<>>]

\* one replay path (one tag): a source with a full state, sharded
\* MaxSourceShards ways, above a partial index keyed by the rows' first column
SourceShards == 1..MaxSourceShards
Keys == 1..MaxKeys
NoMiss == [key |-> 0, outstanding |-> FALSE, forwarded |-> 0, attached |-> FALSE]

\* the replay path before any write or lookup
ReplayStart ==
    /\ srcState = [s \in SourceShards |-> {}]
    /\ dataChan = [s \in SourceShards |-> <<>>]
    /\ reqChan = [s \in SourceShards |-> <<>>]
    /\ pending = {}
    /\ missBuf = [k \in Keys |-> <<>>]
    /\ gotLast = [k \in Keys |-> {}]
    /\ filled = {}
    /\ dstRows = EmptyBag
    /\ nwrites = 0
    /\ nreads = 0
    /\ via = {}
    /\ raced = {}
    /\ served = {}
    /\ lastMiss = NoMiss

\* the upstream database and the replicator before the replicator is started
ReplStart ==
    /\ upstream = 0
    /\ repl = "stopped"
    /\ snapPos = 0
    /\ replPos = 0
    /\ inputs = <<>>
    /\ dfCount = 0
    /\ dfOffset = 0
    /\ snapshotted = FALSE
    /\ restarts = 0
    /\ upAtStop = 0

\* the tables of the resnapshot test: CREATE TABLE repl1 / repl2 (id int, val varchar)
Tables == {"repl1", "repl2"}
BaseCols == <<"id", "val">>
NewCols == {"x", "y"}
AlteredTables == {"repl2"}
Null == 0

\* the two tables as created, without rows
TablesStart ==
    /\ colSpecs = [t \in Tables |-> BaseCols]
    /\ upCols = [t \in Tables |-> BaseCols]
    /\ tblRows = [t \in Tables |-> <<>>]
    /\ truth = [t \in Tables |-> <<>>]

\* MIR: no node built, no add_column call made
NoPos == 0 - 1
NoMirNode == [type |-> "", columns |-> <<>>, list |-> <<>>, conds |-> <<>>]
NoCall == [node |-> 0, col |-> "", pos |-> NoPos, panicked |-> FALSE, before |-> NoMirNode]
MirStart ==
    /\ chain = <<>>
    /\ nadds = 0
    /\ mirRet = NoCall

\* query graphs: edges keyed by (source, destination), predicates per relation
EdgeKeys == {"a-b", "a-computed"}
GroupCols == {"c1", "c2"}
Rels == {"a"}
Preds == {"p", "q"}
NoEdge == [kind |-> "none", cols |-> {}]
EdgeKinds ==
    {NoEdge, [kind |-> "Join", cols |-> {}], [kind |-> "LeftJoin", cols |-> {}]}
    \cup {[kind |-> "GroupBy", cols |-> cs] : cs \in (SUBSET GroupCols) \ {{}}}
QueryGraphs == [edges : [EdgeKeys -> EdgeKinds], preds : [Rels -> SUBSET Preds]]
EmptyQg == [edges |-> [k \in EdgeKeys |-> NoEdge], preds |-> [r \in Rels |-> {}]]

\* no query graphs compared
WeakStart ==
    /\ newQg = EmptyQg
    /\ exQg = EmptyQg
    /\ implies = {}
    /\ reuse = "unset"

\* SQL queries handed to the COUNT(*) rewrite pass
ColNames == <<"id", "name", "age", "bio">>
SqlCols == {ColNames[i] : i \in 1..MaxCols}
SqlTables == {"users", "votes"}
NoTable == ""
NoCol == ""
CountStar == [f |-> "CountStar", table |-> NoTable, col |-> NoCol]
Count(t, c) == [f |-> "Count", table |-> t, col |-> c]
\* field definitions after star expansion: COUNT(*), another call, a column
SqlFields == {CountStar} \cup {[f |-> k, table |-> NoTable, col |-> c] : k \in {"Sum", "Col"}, c \in {"id"}}
SeqsUpTo(S, n) == UNION {[1..k -> S] : k \in 0..n}
SqlQueries ==
    [kind : {"Select", "Insert"},
     tables : SeqsUpTo(SqlTables, MaxFrom),
     fields : SeqsUpTo(SqlFields, MaxFields) \ {<<>>},
     groupBy : SUBSET SqlCols,
     whereCols : SUBSET SqlCols]
\* a write schema: at least one column, no column twice
WriteSchemas ==
    {sch \in SeqsUpTo(SqlCols, MaxCols) \ {<<>>} :
        \A i, j \in 1..Len(sch) : sch[i] = sch[j] => i = j}
NoQuery ==
    [kind |-> "Insert", tables |-> <<>>, fields |-> <<CountStar>>, groupBy |-> {}, whereCols |-> {}]
NoResult == [status |-> "unset", q |-> NoQuery]

\* no query rewritten
CountStarStart ==
    /\ sqlQuery = NoQuery
    /\ writeSchemas = [t \in SqlTables |-> <<"id">>]
    /\ rewritten = NoResult

\* the machines a specification does not run stay as constructed
RestStart ==
    /\ VoteStart /\ DomainStart /\ ReplayStart /\ ReplStart /\ TablesStart /\ MirStart
    /\ WeakStart /\ CountStarStart

\* ------------------------------------------------------------------------
\* Node predicates (dataflow::Node)
\* ------------------------------------------------------------------------
IsSource(n) == kind[n] = "source"
IsBase(n) == kind[n] = "base"
IsReader(n) == kind[n] = "reader"
IsShardMerger(n) == kind[n] = "merger"
IsSharder(n) == kind[n] = "sharder"
HasDomain(n) == domain[n] # Unassigned
\* n.sharded_by().is_none()
ShardedByNone(n) == shards[n] = 0
\* n.sharded_by().shards().unwrap_or(1)
ShardsOrOne(n) == IF shards[n] = 0 THEN 1 ELSE shards[n]
\* the sharding a node hands to its children
OutShards(n) == IF IsSharder(n) THEN MaxShards ELSE shards[n]

Range(s) == {s[i] : i \in 1..Len(s)}
Min(a, b) == IF a < b THEN a ELSE b

RECURSIVE FlatMap(_, _)
\* the concatenation of f[x] for the elements x of s, in order
FlatMap(s, f) ==
    IF s = <<>> THEN <<>> ELSE f[Head(s)] \o FlatMap(Tail(s), f)

\* ------------------------------------------------------------------------
\* assign: the per-node decision
\* ------------------------------------------------------------------------

\* the nodes any_parents' stack visits from p: p and all its ancestors
RECURSIVE Upstream(_)
Upstream(p) ==
    IF IsSource(p) THEN {p}
    ELSE {p} \cup UNION {Upstream(q) : q \in Range(parents[p])}

\* any_parents whose stack is never extended: only the parent itself is checked
AnyParentsNoWalk(node, candidate) ==
    \E p \in Range(parents[node]) :
        /\ HasDomain(p) /\ domain[p] # candidate
        /\ ~IsSource(p) /\ domain[p] = candidate

\* any_parents whose first closure forgets `!= candidate`
AnyParentsNoFilter(node, candidate) ==
    \E p \in Range(parents[node]) :
        /\ HasDomain(p)
        /\ \E pp \in Upstream(p) : ~IsSource(pp) /\ domain[pp] = candidate

\* any_parents(|p| p.has_domain() && p.domain() != candidate, |pp| pp.domain() == candidate)
AnyParents(node, candidate) ==
    \E p \in Range(parents[node]) :
        /\ HasDomain(p) /\ domain[p] # candidate
        /\ \E pp \in Upstream(p) : ~IsSource(pp) /\ domain[pp] = candidate

\* children_same_shard: the walk down from a base
RECURSIVE WalkDown(_)
WalkDown(frontier) ==
    IF frontier = <<>> THEN <<>>
    ELSE LET kept == SelectSeq(frontier, LAMBDA c : ~IsSharder(c) /\ ~IsShardMerger(c))
         IN  kept \o WalkDown(FlatMap(kept, children))

\* 'search: the walk up from children_same_shard to a base that has a domain
RECURSIVE WalkUp(_, _)
WalkUp(node, frontier) ==
    IF frontier = <<>> THEN NoNode
    ELSE LET hits == SelectSeq(frontier,
                        LAMBDA p : p # node /\ IsBase(p) /\ HasDomain(p))
             more == SelectSeq(frontier,
                        LAMBDA p : /\ p # node
                                   /\ ~IsSource(p) /\ ~IsSharder(p) /\ ~IsShardMerger(p)
                                   /\ ~IsBase(p))
         IN  IF hits # <<>> THEN Head(hits)
             ELSE WalkUp(node, FlatMap(more, parents))

FriendlyBase(node) == WalkUp(node, WalkDown(children[node]))

\* node_restrictions.get(&NodeRestrictionKey { node_name, shard })
Restriction(n, i) ==
    IF \E v \in Volumes : <<n, i, v>> \in restr
    THEN CHOOSE v \in Volumes : <<n, i, v>> \in restr
    ELSE "none"

\* the match that lets a restricted node join an unrestricted one
ShardCompatibleLax(new, existing, i) ==
    LET a == Restriction(new, i)
        b == Restriction(existing, i)
    IN  IF a # "none" /\ b # "none" THEN a = b ELSE TRUE

ShardCompatible(new, existing, i) ==
    LET a == Restriction(new, i)
        b == Restriction(existing, i)
    IN  IF a # "none" /\ b # "none" THEN a = b
        ELSE IF a # "none" /\ b = "none" THEN FALSE
        ELSE TRUE

\* the closure `compatible`
Compatible(new, existing) ==
    \A i \in 0..(Min(ShardsOrOne(new), ShardsOrOne(existing)) - 1) :
        ShardCompatible(new, existing, i)

\* the first loop without its is_sharder() branch
ParentChoiceAnyKind(node) ==
    LET ok == SelectSeq(parents[node],
                  LAMBDA p : /\ ~IsSource(p)
                             /\ HasDomain(p)
                             /\ ~AnyParents(node, domain[p]))
    IN  IF ok = <<>> THEN Unassigned ELSE domain[Head(ok)]

\* the first loop over parents: the first parent that is neither a sharder nor
\* the source, has a domain, and whose domain passes the a-b-a check
ParentChoice(node) ==
    LET ok == SelectSeq(parents[node],
                  LAMBDA p : /\ ~IsSharder(p) /\ ~IsSource(p)
                             /\ HasDomain(p)
                             /\ ~AnyParents(node, domain[p]))
    IN  IF ok = <<>> THEN Unassigned ELSE domain[Head(ok)]

\* the inner loop over one parent's children
SiblingOf(node, pni) ==
    LET ok == SelectSeq(children[pni],
                  LAMBDA s : /\ HasDomain(s)
                             /\ ShardedByNone(s) = ShardedByNone(node)
                             /\ ~AnyParents(node, domain[s]))
    IN  IF ok = <<>> THEN Unassigned ELSE domain[Head(ok)]

\* a second loop that keeps traversing: without a sibling it takes the domain
\* of a more distant relative (any child of an ancestor) that is apart from
\* all parents
SiblingChoiceCousins(node) ==
    LET found == SelectSeq(parents[node], LAMBDA pni : SiblingOf(node, pni) # Unassigned)
        above == UNION {Upstream(pni) : pni \in Range(parents[node])}
        far == {g \in UNION {Range(children[a]) : a \in above} :
                    /\ HasDomain(g)
                    /\ \A pni \in Range(parents[node]) : domain[pni] # domain[g]}
    IN  IF found # <<>> THEN SiblingOf(node, found[Len(found)])
        ELSE IF far # {} THEN domain[CHOOSE g \in far : TRUE]
        ELSE Unassigned

\* the second loop: break leaves only the inner loop, so a later parent's
\* sibling replaces an earlier one's
SiblingChoice(node) ==
    LET found == SelectSeq(parents[node], LAMBDA pni : SiblingOf(node, pni) # Unassigned)
    IN  IF found = <<>> THEN Unassigned ELSE SiblingOf(node, found[Len(found)])

\* the invariant!/invariant_eq! checks along the way
ShardingInvariants(node) ==
    IF IsShardMerger(node) \/ IsReader(node) THEN TRUE
    ELSE IF IsBase(node)
    THEN \A c \in Range(WalkDown(children[node])) : ShardedByNone(c) = ShardedByNone(node)
    ELSE \A p \in Range(parents[node]) :
            /\ IsSharder(p) => ShardedByNone(p)
            /\ (~IsSharder(p) /\ ~IsSource(p)) => ShardedByNone(p) = ShardedByNone(node)

\* the closure without its BOUNDARY_ test
AssignmentNoBoundary(node) ==
    IF IsShardMerger(node) THEN Unassigned
    ELSE IF IsReader(node) THEN Unassigned
    ELSE IF IsBase(node)
    THEN LET f == FriendlyBase(node)
         IN  IF f # NoNode /\ Compatible(node, f) THEN domain[f] ELSE Unassigned
    ELSE IF ParentChoice(node) # Unassigned THEN ParentChoice(node)
    ELSE SiblingChoice(node)

\* the domain the closure returns for node, Unassigned standing for next_domain()
Assignment(node) ==
    IF IsShardMerger(node) THEN Unassigned
    ELSE IF IsReader(node) THEN Unassigned
    ELSE IF IsBase(node)
    THEN LET f == FriendlyBase(node)
         IN  IF f # NoNode /\ Compatible(node, f) THEN domain[f] ELSE Unassigned
    ELSE IF boundary[node] THEN Unassigned
    ELSE IF ParentChoice(node) # Unassigned THEN ParentChoice(node)
    ELSE SiblingChoice(node)

\* next_domain without the increment
NextDomainStuck(n) == n

\* next_domain that takes two indices at a time
NextDomainSkips(n) == n + 2

\* next_domain
NextDomain(n) == n + 1

\* ------------------------------------------------------------------------
\* Building the graph: a migration adds nodes below existing ones
\* ------------------------------------------------------------------------
Present == 1..nn

AddNode(k, sh, b, ps) ==
    LET n == nn + 1 IN
    /\ pc = "migrate"
    /\ nn < MaxNodes
    /\ nn' = n
    /\ kind' = [kind EXCEPT ![n] = k]
    /\ shards' = [shards EXCEPT ![n] = sh]
    /\ boundary' = [boundary EXCEPT ![n] = b]
    /\ parents' = [parents EXCEPT ![n] = ps]
    \* petgraph iterates the most recently added edge first
    /\ children' = [m \in AllNodes |->
                       IF m \in Range(ps) THEN <<n>> \o children[m] ELSE children[m]]
    /\ last' = NoStep
    /\ UNCHANGED <<domain, ndomains, next, pc>>
    /\ UNCHANGED <<gvars, xvars>>

\* the placement restrictions a new base may come with: at most one per shard
\* (node_restrictions is a map keyed by node name and shard).
\* Labels are only ever compared for equality, so the second label is used
\* only once the first one is in use.
BaseRestrictions(n, sh) ==
    {R \in {{<<n, i, f[i]>> : i \in {j \in DOMAIN f : f[j] # "none"}} :
                f \in [0..((IF sh = 0 THEN 1 ELSE sh) - 1) -> Volumes \cup {"none"}]} :
        /\ Cardinality(R) + Cardinality(restr) <= MaxRestrictions
        /\ (\E x \in restr \cup R : x[3] = "hdd") => (\E x \in restr \cup R : x[3] = "ssd")}

AddBase ==
    \E sh \in {0, MaxShards} :
        /\ \E R \in BaseRestrictions(nn + 1, sh) : restr' = restr \cup R
        /\ AddNode("base", sh, FALSE, <<Source>>)

AddReader ==
    \E p \in Present :
        /\ ~IsReader(p)
        /\ AddNode("reader", OutShards(p), FALSE, <<p>>)
        /\ UNCHANGED restr

AddSharder ==
    \E p \in Present :
        /\ ~IsReader(p) /\ OutShards(p) = 0
        /\ AddNode("sharder", 0, FALSE, <<p>>)
        /\ UNCHANGED restr

AddMerger ==
    \E p \in Present :
        /\ ~IsReader(p) /\ OutShards(p) > 0
        /\ AddNode("merger", 0, FALSE, <<p>>)
        /\ UNCHANGED restr

\* the lists of k distinct nodes that can be the parents of one new node
RECURSIVE ParentListsOfLen(_)
ParentListsOfLen(k) ==
    IF k = 1 THEN {<<p>> : p \in {q \in Present : ~IsReader(q)}}
    ELSE UNION {{Append(ps, p) : p \in {q \in Present :
                                            /\ ~IsReader(q) /\ q \notin Range(ps)
                                            /\ OutShards(q) = OutShards(ps[1])}} :
                ps \in ParentListsOfLen(k - 1)}

ParentLists == UNION {ParentListsOfLen(k) : k \in 1..MaxParents}

AddInternal ==
    \E ps \in ParentLists, b \in BOOLEAN :
        /\ AddNode("internal", OutShards(ps[1]), b, ps)
        /\ UNCHANGED restr

\* Migration::commit calls assign with the new nodes in topological order
Commit ==
    /\ pc = "migrate"
    /\ next <= nn
    /\ pc' = "assign"
    /\ last' = [NoStep EXCEPT !.first = next, !.start = ndomains]
    /\ UNCHANGED <<kind, shards, boundary, parents, children, domain, ndomains, restr, nn, next>>
    /\ UNCHANGED <<gvars, xvars>>

\* one iteration of `for &node in topo_list`
AssignStep ==
    /\ pc = "assign"
    /\ ShardingInvariants(next)
    /\ LET a == Assignment(next) IN
        /\ domain' = [domain EXCEPT ![next] = IF a = Unassigned THEN ndomains ELSE a]
        /\ ndomains' = IF a = Unassigned THEN NextDomain(ndomains) ELSE ndomains
    /\ last' = [node |-> next, before |-> ndomains,
                friend |-> IF IsBase(next) THEN FriendlyBase(next) ELSE NoNode,
                first |-> last.first, start |-> last.start,
                fresh |-> IF Assignment(next) = Unassigned
                          THEN last.fresh \cup {next} ELSE last.fresh]
    /\ next' = next + 1
    /\ pc' = IF next = nn THEN "migrate" ELSE "assign"
    /\ UNCHANGED <<kind, shards, boundary, parents, children, restr, nn>>
    /\ UNCHANGED <<gvars, xvars>>

\* the graph a controller starts with: only the source
GraphInit ==
    /\ kind = [n \in AllNodes |-> IF n = Source THEN "source" ELSE "absent"]
    /\ shards = [n \in AllNodes |-> 0]
    /\ boundary = [n \in AllNodes |-> FALSE]
    /\ parents = [n \in AllNodes |-> <<>>]
    /\ children = [n \in AllNodes |-> <<>>]
    /\ domain = [n \in AllNodes |-> Unassigned]
    /\ ndomains = 0
    /\ restr = {}
    /\ nn = 0
    /\ next = 1
    /\ pc = "migrate"
    /\ last = NoStep

\* an aggregator over an empty source, nothing materialized, nothing processed
AggStart ==
    /\ srcRows = [r \in Rows |-> 0]
    /\ mat = {}
    /\ inp = <<>>
    /\ out = <<>>
    /\ matBefore = {}
    /\ undo = NoUndo
    /\ did = "none"
    /\ qarg = NoGroup
    /\ qres = {}

Init ==
    /\ RestStart
    /\ GraphInit
    /\ op = "COUNT"
    /\ AggStart

Next ==
    \/ AddBase
    \/ AddReader
    \/ AddSharder
    \/ AddMerger
    \/ AddInternal
    \/ Commit
    \/ AssignStep

Spec == Init /\ [][Next]_vars

TypeOK ==
    /\ nn \in 0..MaxNodes
    /\ next \in 1..(nn + 1)
    /\ \A n \in Nodes : HasDomain(n) <=> n < next


\* ------------------------------------------------------------------------
\* Aggregation and Aggregator (src/ops/aggregate.rs)
\* ------------------------------------------------------------------------

\* Aggregation::zero
Zero(o) == IF o = "COUNT" THEN 0 ELSE 0

\* update that counts a revoked record as one more
UpdateIgnoresSign(o, old, delta, positive) ==
    IF o = "COUNT" THEN old + 1 ELSE old + delta

\* Aggregation::update
Update(o, old, delta, positive) ==
    IF o = "COUNT" THEN (IF positive THEN old + 1 ELSE old - 1)
    ELSE (IF positive THEN old + delta ELSE old - delta)

\* the group of a source row: its columns other than self.over
GroupOf(r) == [i \in 1..(Cols - 1) |-> IF i < Over + 1 THEN r[i] ELSE r[i + 1]]

\* the distinct groups of an update, and the diffs consolidate holds for one
BatchGroups(rs) == {GroupOf(rs[i].row) : i \in 1..Len(rs)}
\* a consolidation that hands every record of the update to every group
DiffsUngrouped(rs, g) == rs
Diffs(rs, g) == SelectSeq(rs, LAMBDA rec : GroupOf(rec.row) = g)

\* db.find_and(&q[..], ...): the materialized rows of a group
Find(db, g) == {m \in db : SubSeq(m.row, 1, Cols - 1) = g}

\* the rows of a set of materialized records
RowsOf(db) == {m.row : m \in db}

\* (current, old_ts): the group's materialized value, or the zero value at time 0
Current(o, db, g) ==
    IF Find(db, g) = {} THEN [val |-> Zero(o), ts |-> 0]
    ELSE LET m == CHOOSE m \in Find(db, g) : TRUE
         IN  [val |-> m.row[Cols], ts |-> m.ts]

RECURSIVE FoldUpdate(_, _, _)
\* diffs.into_iter().fold(current, |current, (diff, is_pos, _)| self.op.update(...))
FoldUpdate(o, cur, diffs) ==
    IF diffs = <<>> THEN cur
    ELSE FoldUpdate(o, Update(o, cur, Head(diffs).row[Over + 1], Head(diffs).pos), Tail(diffs))

RECURSIVE MaxTsOf(_)
\* diffs.iter().map(|&(_, _, ts)| ts).max()
MaxTsOf(diffs) ==
    IF Len(diffs) = 1 THEN diffs[1].ts
    ELSE LET m == MaxTsOf(Tail(diffs)) IN IF Head(diffs).ts > m THEN Head(diffs).ts ELSE m

\* the two records forward pushes for a group without looking whether the group
\* has a materialized row: only the positive when it has none
EmitGroupOnlyPositive(o, db, rs, g) ==
    LET cur == Current(o, db, g)
        d == Diffs(rs, g)
        neg == [pos |-> FALSE, row |-> g \o <<cur.val>>, ts |-> cur.ts]
        new == [pos |-> TRUE, row |-> g \o <<FoldUpdate(o, cur.val, d)>>, ts |-> MaxTsOf(d)]
    IN  IF Find(db, g) = {} THEN <<new>> ELSE <<neg, new>>

\* the two records forward pushes for one group: revoke old value, emit new value
EmitGroup(o, db, rs, g) ==
    LET cur == Current(o, db, g)
        d == Diffs(rs, g)
    IN  << [pos |-> FALSE, row |-> g \o <<cur.val>>, ts |-> cur.ts],
           [pos |-> TRUE, row |-> g \o <<FoldUpdate(o, cur.val, d)>>, ts |-> MaxTsOf(d)] >>

\* the orders in which `for (group, diffs) in consolidate.into_iter()` may run
GroupOrders(G) ==
    {s \in [1..Cardinality(G) -> G] : \A i, j \in 1..Cardinality(G) : s[i] = s[j] => i = j}

\* Aggregator::forward for a non-empty update, the groups taken in the given order
ForwardOut(o, db, rs, order) ==
    FlatMap(order, [g \in Range(order) |-> EmitGroup(o, db, rs, g)])

RECURSIVE ApplyBatch(_, _)
\* the materialization of emitted records: a negative deletes the materialized
\* row it revokes, a positive inserts its row
ApplyBatch(db, recs) ==
    IF recs = <<>> THEN db
    ELSE LET rec == Head(recs)
             db1 == IF rec.pos THEN db \cup {[row |-> rec.row, ts |-> rec.ts]}
                    ELSE {m \in db : m.row # rec.row}
         IN  ApplyBatch(db1, Tail(recs))

\* the number of records the source holds
RECURSIVE BagSize(_, _)
BagSize(bag, S) ==
    IF S = {} THEN 0
    ELSE LET r == CHOOSE r \in S : TRUE IN bag[r] + BagSize(bag, S \ {r})

RECURSIVE SourceApply(_, _)
\* the source after the records of an update, Invalid when the update revokes a
\* record the source does not hold or grows the source beyond MaxSrc
SourceApply(bag, rs) ==
    IF rs = <<>> THEN bag
    ELSE LET rec == Head(rs) IN
         IF rec.pos
         THEN IF BagSize(bag, Rows) < MaxSrc
              THEN SourceApply([bag EXCEPT ![rec.row] = @ + 1], Tail(rs))
              ELSE Invalid
         ELSE IF bag[rec.row] > 0
              THEN SourceApply([bag EXCEPT ![rec.row] = @ - 1], Tail(rs))
              ELSE Invalid

Records == [pos : BOOLEAN, row : Rows, ts : 1..MaxTs]
Updates == UNION {[1..k -> Records] : k \in 1..MaxBatch}

\* Aggregator::query over the source's records; g = NoGroup is a query without
\* conditions, otherwise the query has an equality condition on every group column
QueryRows(o, bag, g) ==
    LET hit == {r \in Rows : bag[r] > 0 /\ (g = NoGroup \/ GroupOf(r) = g)}
        groups == {GroupOf(r) : r \in hit}
        \* the records of a group, each copy one element
        recsOf(h) == {<<r, k>> : r \in {x \in hit : GroupOf(x) = h}, k \in 1..MaxSrc} 
        RECURSIVE Consolidate(_, _)
        Consolidate(acc, S) ==
            IF S = {} THEN acc
            ELSE LET e == CHOOSE e \in S : TRUE
                 IN  Consolidate(Update(o, acc, e[1][Over + 1], TRUE), S \ {e})
        agg(h) == Consolidate(Zero(o), {e \in recsOf(h) : e[2] <= bag[e[1]]})
    IN  IF groups = {}
        THEN IF g # NoGroup THEN {g \o <<Zero(o)>>} ELSE {}
        ELSE {h \o <<agg(h)>> : h \in groups}

\* the history kept for a Positive(r) that may later be revoked
UndoAfter(rs, db, db1) ==
    IF Len(rs) = 1 /\ rs[1].pos
    THEN [state |-> "armed", row |-> rs[1].row,
          before |-> RowsOf(Find(db, GroupOf(rs[1].row))), after |-> {}]
    ELSE IF undo.state = "armed" /\ Len(rs) = 1 /\ ~rs[1].pos /\ rs[1].row = undo.row
    THEN [undo EXCEPT !.state = "done", !.after = RowsOf(Find(db1, GroupOf(undo.row)))]
    ELSE IF undo.state = "armed" /\ GroupOf(undo.row) \notin BatchGroups(rs)
    THEN undo
    ELSE NoUndo

\* Node::process of a non-empty update: the source takes the records, forward
\* runs against the materialized output, and the emitted records are applied to it
Process ==
    \E rs \in Updates :
        /\ SourceApply(srcRows, rs) # Invalid
        /\ \E order \in GroupOrders(BatchGroups(rs)) :
            LET emitted == ForwardOut(op, mat, rs, order) IN
            /\ srcRows' = SourceApply(srcRows, rs)
            /\ inp' = rs
            /\ out' = emitted
            /\ matBefore' = mat
            /\ mat' = ApplyBatch(mat, emitted)
            /\ undo' = UndoAfter(rs, mat, ApplyBatch(mat, emitted))
        /\ did' = "process"
        /\ qarg' = NoGroup
        /\ qres' = {}
        /\ UNCHANGED op
        /\ UNCHANGED <<avars, xvars>>

\* forward of an empty update returns None: nothing is emitted
ProcessEmpty ==
    /\ inp' = <<>>
    /\ out' = <<>>
    /\ matBefore' = mat
    /\ undo' = IF undo.state = "armed" THEN undo ELSE NoUndo
    /\ did' = "process"
    /\ qarg' = NoGroup
    /\ qres' = {}
    /\ UNCHANGED <<op, srcRows, mat>>
    /\ UNCHANGED <<avars, xvars>>

\* Aggregator::query
Query ==
    \E g \in {NoGroup} \cup QueryGroups :
        /\ qarg' = g
        /\ qres' = QueryRows(op, srcRows, g)
        /\ did' = "query"
        /\ inp' = <<>>
        /\ out' = <<>>
        /\ matBefore' = mat
        /\ undo' = IF undo.state = "armed" THEN undo ELSE NoUndo
        /\ UNCHANGED <<op, srcRows, mat>>
        /\ UNCHANGED <<avars, xvars>>

AggInit ==
    /\ RestStart
    /\ GraphInit
    /\ op \in {"COUNT", "SUM"}
    /\ AggStart

AggNext ==
    \/ Process
    \/ ProcessEmpty
    \/ Query

AggSpec == AggInit /\ [][AggNext]_vars

\* find_and's assertion: a group never has more than one materialized row
AggTypeOK ==
    /\ \A g \in QueryGroups : Cardinality(Find(mat, g)) <= 1
    /\ BagSize(srcRows, Rows) <= MaxSrc

\* ------------------------------------------------------------------------
\* The votes example: vote -> vc -> awvc <- article, awvc -> reader, every node
\* in a domain of its own (crate documentation of noria-server)
\* ------------------------------------------------------------------------
Users == Vals
VoteRows == {<<a, u>> : a \in {1, 2}, u \in Users}
Quiescent == toVc = <<>> /\ toJoin = <<>> /\ toReader = <<>>

RECURSIVE JoinHits(_, _)
\* the joined records of one vc record: one per article row with its id
JoinHits(rec, arts) ==
    IF arts = {} THEN <<>>
    ELSE LET a == CHOOSE a \in arts : TRUE
         IN  <<[pos |-> rec.pos, row |-> <<a.id, a.title, rec.row[2]>>]>>
             \o JoinHits(rec, arts \ {a})

\* Join::on_input for an update from vc: the join is performed for every
\* record, negative or positive, against the article rows of the record's id
JoinOut(recs) ==
    FlatMap(recs, [rec \in Range(recs) |-> JoinHits(rec, {a \in Article : a.id = rec.row[1]})])

\* the reader's store after one record: a negative deletes one copy of the row
\* it revokes, a positive inserts one
ReaderApplyOne(bag, rec) ==
    IF rec.pos
    THEN IF rec.row \in DOMAIN bag
         THEN [bag EXCEPT ![rec.row] = @ + 1]
         ELSE [r \in DOMAIN bag \cup {rec.row} |-> IF r = rec.row THEN 1 ELSE bag[r]]
    ELSE IF rec.row \notin DOMAIN bag THEN bag
         ELSE IF bag[rec.row] > 1 THEN [bag EXCEPT ![rec.row] = @ - 1]
         ELSE [r \in DOMAIN bag \ {rec.row} |-> bag[r]]

RECURSIVE ReaderApply(_, _)
ReaderApply(bag, recs) ==
    IF recs = <<>> THEN bag
    ELSE ReaderApply(ReaderApplyOne(bag, Head(recs)), Tail(recs))

\* a lookup in the reader by article id: the rows held, with their copies
ReaderLookup(a) == [r \in {x \in DOMAIN readerRows : x[1] = a} |-> readerRows[r]]

\* vote.insert: the base emits the Positive of the row
VoteInsert ==
    \E r \in VoteRows \ votes :
        /\ Len(hist) < MaxOps
        /\ votes' = votes \cup {r}
        /\ toVc' = Append(toVc, <<[pos |-> TRUE, row |-> r, ts |-> 1]>>)
        /\ hist' = Append(hist, [pos |-> TRUE, row |-> r])
        /\ UNCHANGED <<vcMat, toJoin, toReader, readerRows>>
        /\ UNCHANGED restOfE

\* vote.delete: the base emits the Negative of the row
VoteDelete ==
    \E r \in votes :
        /\ Len(hist) < MaxOps
        /\ votes' = votes \ {r}
        /\ toVc' = Append(toVc, <<[pos |-> FALSE, row |-> r, ts |-> 1]>>)
        /\ hist' = Append(hist, [pos |-> FALSE, row |-> r])
        /\ UNCHANGED <<vcMat, toJoin, toReader, readerRows>>
        /\ UNCHANGED restOfE

\* the domain of vc takes its next update: forward, then the materialization
VcStep ==
    /\ toVc # <<>>
    /\ \E order \in GroupOrders(BatchGroups(Head(toVc))) :
        LET emitted == ForwardOut("COUNT", vcMat, Head(toVc), order) IN
        /\ vcMat' = ApplyBatch(vcMat, emitted)
        /\ toJoin' = Append(toJoin, emitted)
    /\ toVc' = Tail(toVc)
    /\ UNCHANGED <<votes, toReader, readerRows, hist>>
    /\ UNCHANGED restOfE

\* the domain of awvc takes its next update
JoinStep ==
    /\ toJoin # <<>>
    /\ toReader' = Append(toReader, JoinOut(Head(toJoin)))
    /\ toJoin' = Tail(toJoin)
    /\ UNCHANGED <<votes, vcMat, toVc, readerRows, hist>>
    /\ UNCHANGED restOfE

\* the domain of the reader takes its next update
ReaderStep ==
    /\ toReader # <<>>
    /\ readerRows' = ReaderApply(readerRows, Head(toReader))
    /\ toReader' = Tail(toReader)
    /\ UNCHANGED <<votes, vcMat, toVc, toJoin, hist>>
    /\ UNCHANGED restOfE

VoteInit ==
    /\ GraphInit
    /\ op = "COUNT"
    /\ AggStart
    /\ RestStart

VoteNext ==
    \/ VoteInsert
    \/ VoteDelete
    \/ VcStep
    \/ JoinStep
    \/ ReaderStep

VoteSpec == VoteInit /\ [][VoteNext]_vars

\* ------------------------------------------------------------------------
\* Domains (data-flow execution): every domain owns MaxWalk nodes in a chain,
\* takes packets from one inbox and hands its output to the next domain
\* ------------------------------------------------------------------------
\* a domain that takes a packet from its inbox whenever one waits
MayDequeueAnyTime(d) == inbox[d] # <<>>

\* a domain takes the next packet only when it is not processing one
MayDequeue(d) == inbox[d] # <<>> /\ running[d] = <<>>

\* s without its i-th element
Without(s, i) == SubSeq(s, 1, i - 1) \o SubSeq(s, i + 1, Len(s))

\* a client write or an update of a domain outside the chain enters the inbox
Deliver ==
    \E d \in Domains :
        /\ sent < MaxPackets
        /\ sent' = sent + 1
        /\ inbox' = [inbox EXCEPT ![d] = Append(@, sent + 1)]
        /\ arrived' = [arrived EXCEPT ![d] = Append(@, sent + 1)]
        /\ UNCHANGED <<running, effects>>
        /\ UNCHANGED restOfD

\* Domain::on_event: the domain takes the packet at the head of its inbox
OnEvent ==
    \E d \in Domains :
        /\ MayDequeue(d)
        /\ running' = [running EXCEPT ![d] = Append(@, [pkt |-> Head(inbox[d]), at |-> 1])]
        /\ inbox' = [inbox EXCEPT ![d] = Tail(@)]
        /\ UNCHANGED <<sent, arrived, effects>>
        /\ UNCHANGED restOfD

\* Domain::dispatch at one node of the walk: on_input runs, the node's state is
\* updated, and the walk continues to the in-domain child
DispatchInside ==
    \E d \in Domains : \E i \in 1..Len(running[d]) :
        LET w == running[d][i] IN
        /\ w.at < MaxWalk
        /\ effects' = [effects EXCEPT ![d] = Append(@, [pkt |-> w.pkt, node |-> w.at, what |-> "state"])]
        /\ running' = [running EXCEPT ![d][i].at = w.at + 1]
        /\ UNCHANGED <<inbox, sent, arrived>>
        /\ UNCHANGED restOfD

\* Domain::dispatch at the last node of the walk: its state is updated and its
\* output is sent to the next domain; the packet is then done
DispatchLast ==
    \E d \in Domains : \E i \in 1..Len(running[d]) :
        LET w == running[d][i] IN
        /\ w.at = MaxWalk
        /\ effects' = [effects EXCEPT ![d] =
                @ \o <<[pkt |-> w.pkt, node |-> w.at, what |-> "state"],
                       [pkt |-> w.pkt, node |-> w.at, what |-> "emit"]>>]
        /\ running' = [running EXCEPT ![d] = Without(@, i)]
        /\ IF d < MaxDomains
           THEN /\ inbox' = [inbox EXCEPT ![d + 1] = Append(@, w.pkt)]
                /\ arrived' = [arrived EXCEPT ![d + 1] = Append(@, w.pkt)]
           ELSE UNCHANGED <<inbox, arrived>>
        /\ UNCHANGED sent
        /\ UNCHANGED restOfD

DomainInit ==
    /\ GraphInit
    /\ op = "COUNT"
    /\ AggStart
    /\ RestStart

DomainNext ==
    \/ Deliver
    \/ OnEvent
    \/ DispatchInside
    \/ DispatchLast

DomainSpec == DomainInit /\ [][DomainNext]_vars

\* ------------------------------------------------------------------------
\* Replay (upquery) along one replay path
\* ------------------------------------------------------------------------
KeyOf(row) == row[1]
Message(row) == [type |-> "Message", row |-> row]
ReplayPiece(k, rows, isLast) == [type |-> "ReplayPiece", key |-> k, rows |-> rows, last |-> isLast]

\* a bag with one more copy of every row of a set
RECURSIVE BagAddAll(_, _)
BagAddAll(bag, rows) ==
    IF rows = {} THEN bag
    ELSE LET r == CHOOSE r \in rows : TRUE
         IN  BagAddAll(ReaderApplyOne(bag, [pos |-> TRUE, row |-> r]), rows \ {r})

\* the rows the destination's state holds for a key
RowsFor(bag, k) == {r \in DOMAIN bag : KeyOf(r) = k}

\* a destination that asks the source again at every miss
MustRequestAlways(k) == TRUE

\* coalescing: a miss asks the source only if the key has no request outstanding
MustRequest(k) == k \notin pending

\* a destination that takes the fill as complete at the first last piece
FillCompleteAtFirstLast(lasts) == lasts # {}

\* the fill is complete once every source shard has sent its last piece
FillComplete(lasts) == lasts = SourceShards

\* a destination that applies every delta, whatever the state of its key
TakesDeltaAlways(k, s) == TRUE

\* a delta is applied when its key is filled, and also when the key's replay is
\* outstanding and the piece of the delta's shard is already in; otherwise the
\* key is a hole (or the replay will carry the row) and the delta is dropped
TakesDelta(k, s) == k \in filled \/ (k \in pending /\ s \in gotLast[k])

\* a write reaches a shard of the source: the full state takes the row and the
\* delta is sent down the path
Write ==
    \E k \in Keys : \E s \in SourceShards :
        LET row == <<k, nwrites + 1>> IN
        /\ nwrites < MaxWrites
        /\ nwrites' = nwrites + 1
        /\ srcState' = [srcState EXCEPT ![s] = @ \cup {row}]
        /\ dataChan' = [dataChan EXCEPT ![s] = Append(@, Message(row))]
        /\ raced' = IF k \in pending THEN raced \cup {row} ELSE raced
        /\ UNCHANGED <<reqChan, pending, missBuf, gotLast, filled, dstRows, nreads, via,
                       served, lastMiss>>
        /\ UNCHANGED restOfR

\* a lookup at the destination finds its key filled
Hit ==
    \E k \in filled :
        /\ nreads < MaxReads
        /\ nreads' = nreads + 1
        /\ served' = served \cup {[pkt |-> nreads + 1, key |-> k, rows |-> RowsFor(dstRows, k),
                                   lasts |-> SourceShards, wasFilled |-> TRUE]}
        /\ UNCHANGED <<srcState, dataChan, reqChan, pending, missBuf, gotLast, filled,
                       dstRows, nwrites, via, raced, lastMiss>>
        /\ UNCHANGED restOfR

\* a lookup at the destination misses: the packet is buffered for (tag, key) and
\* RequestPartialReplay goes to every shard of the source, unless coalesced
Miss ==
    \E k \in Keys \ filled :
        LET ask == MustRequest(k) IN
        /\ nreads < MaxReads
        /\ nreads' = nreads + 1
        /\ missBuf' = [missBuf EXCEPT ![k] = Append(@, nreads + 1)]
        /\ reqChan' = IF ask THEN [s \in SourceShards |-> Append(reqChan[s], k)] ELSE reqChan
        /\ pending' = pending \cup {k}
        /\ lastMiss' = [key |-> k, outstanding |-> k \in pending,
                        forwarded |-> IF ask THEN 1 ELSE 0, attached |-> TRUE]
        /\ UNCHANGED <<srcState, dataChan, gotLast, filled, dstRows, nwrites, via, raced, served>>
        /\ UNCHANGED restOfR

\* a source shard takes a request: it scans its state for the key and sends the
\* rows down the path in one piece, or in two with last set on the second
Seed ==
    \E s \in SourceShards :
        /\ reqChan[s] # <<>>
        /\ LET k == Head(reqChan[s])
               rows == {r \in srcState[s] : KeyOf(r) = k}
           IN  \E first \in {{}} \cup {{r} : r \in rows} :
                dataChan' = [dataChan EXCEPT ![s] =
                    IF first = {} THEN Append(@, ReplayPiece(k, rows, TRUE))
                    ELSE @ \o <<ReplayPiece(k, first, FALSE), ReplayPiece(k, rows \ first, TRUE)>>]
        /\ reqChan' = [reqChan EXCEPT ![s] = Tail(@)]
        /\ UNCHANGED <<srcState, pending, missBuf, gotLast, filled, dstRows, nwrites, nreads,
                       via, raced, served, lastMiss>>
        /\ UNCHANGED restOfR

\* a normal delta arrives at the destination
TakeMessage ==
    \E s \in SourceShards :
        /\ dataChan[s] # <<>> /\ Head(dataChan[s]).type = "Message"
        /\ LET row == Head(dataChan[s]).row IN
           IF TakesDelta(KeyOf(row), s)
           THEN /\ dstRows' = BagAddAll(dstRows, {row})
                /\ via' = via \cup {<<row, "delta">>}
           ELSE UNCHANGED <<dstRows, via>>
        /\ dataChan' = [dataChan EXCEPT ![s] = Tail(@)]
        /\ UNCHANGED <<srcState, reqChan, pending, missBuf, gotLast, filled, nwrites, nreads,
                       raced, served, lastMiss>>
        /\ UNCHANGED restOfR

\* a replay piece arrives at the destination: its rows enter the state; with the
\* last piece of the last shard the key is marked filled and the miss buffer is
\* drained, the buffered packets being processed again
TakePiece ==
    \E s \in SourceShards :
        /\ dataChan[s] # <<>> /\ Head(dataChan[s]).type = "ReplayPiece"
        /\ LET piece == Head(dataChan[s])
               k == piece.key
               lasts == IF piece.last THEN gotLast[k] \cup {s} ELSE gotLast[k]
               rows == BagAddAll(dstRows, piece.rows)
               done == piece.last /\ FillComplete(lasts)
           IN  /\ dstRows' = rows
               /\ via' = via \cup {<<r, "replay">> : r \in piece.rows}
               /\ gotLast' = [gotLast EXCEPT ![k] = IF done THEN {} ELSE lasts]
               /\ filled' = IF done THEN filled \cup {k} ELSE filled
               /\ pending' = IF done THEN pending \ {k} ELSE pending
               /\ missBuf' = IF done THEN [missBuf EXCEPT ![k] = <<>>] ELSE missBuf
               /\ served' = IF done
                     THEN served \cup {[pkt |-> missBuf[k][i], key |-> k, rows |-> RowsFor(rows, k),
                                        lasts |-> lasts, wasFilled |-> k \in filled \cup {k}]
                                       : i \in 1..Len(missBuf[k])}
                     ELSE served
        /\ dataChan' = [dataChan EXCEPT ![s] = Tail(@)]
        /\ UNCHANGED <<srcState, reqChan, nwrites, nreads, raced, lastMiss>>
        /\ UNCHANGED restOfR

ReplayInit ==
    /\ GraphInit
    /\ op = "COUNT"
    /\ AggStart
    /\ RestStart

ReplayNext ==
    \/ Write
    \/ Hit
    \/ Miss
    \/ Seed
    \/ TakeMessage
    \/ TakePiece

ReplaySpec == ReplayInit /\ [][ReplayNext]_vars

\* ------------------------------------------------------------------------
\* Replication of a table without a key (replicators/tests/tests.rs): the
\* inserter writes upstream while the replicator snapshots, streams, is stopped
\* and is started again
\* ------------------------------------------------------------------------
\* a base table that applies every Input it receives
FreshInputAlways(seq) == TRUE

\* deduplication: the base table applies an Input only if its sequence number
\* is beyond the last one applied
FreshInput(seq) == seq > dfOffset

\* INSERT INTO catch_up VALUES (100, 'I am a teapot')
UpstreamInsert ==
    /\ upstream < MaxInserts
    /\ upstream' = upstream + 1
    /\ UNCHANGED <<repl, snapPos, replPos, inputs, dfCount, dfOffset, snapshotted, restarts, upAtStop>>
    /\ UNCHANGED restOfP

\* start_repl: NoriaAdapter::start resumes from the data-flow's offset if the
\* table holds a snapshot, and begins a snapshot at the current position if not
StartRepl ==
    /\ repl = "stopped"
    /\ restarts < MaxRestarts
    /\ restarts' = restarts + 1
    /\ IF snapshotted
       THEN repl' = "streaming" /\ replPos' = dfOffset /\ UNCHANGED snapPos
       ELSE repl' = "snapshot" /\ snapPos' = upstream /\ UNCHANGED replPos
    /\ UNCHANGED <<upstream, inputs, dfCount, dfOffset, snapshotted, upAtStop>>
    /\ UNCHANGED restOfP

\* the snapshot ends: the base table holds the rows as of the snapshot's
\* position, and streaming starts behind it
SnapshotDone ==
    /\ repl = "snapshot"
    /\ dfCount' = snapPos
    /\ dfOffset' = snapPos
    /\ snapshotted' = TRUE
    /\ replPos' = snapPos
    /\ repl' = "streaming"
    /\ UNCHANGED <<upstream, snapPos, inputs, restarts, upAtStop>>
    /\ UNCHANGED restOfP

\* the replicator reads the next entry of the upstream log and sends it as an
\* Input tagged with its sequence number
Stream ==
    /\ repl = "streaming"
    /\ replPos < upstream
    /\ replPos' = replPos + 1
    /\ inputs' = Append(inputs, replPos + 1)
    /\ UNCHANGED <<upstream, repl, snapPos, dfCount, dfOffset, snapshotted, restarts, upAtStop>>
    /\ UNCHANGED restOfP

\* Base::on_input of an Input packet
BaseInput ==
    /\ inputs # <<>>
    /\ IF FreshInput(Head(inputs))
       THEN dfCount' = dfCount + 1 /\ dfOffset' = Head(inputs)
       ELSE UNCHANGED <<dfCount, dfOffset>>
    /\ inputs' = Tail(inputs)
    /\ UNCHANGED <<upstream, repl, snapPos, replPos, snapshotted, restarts, upAtStop>>
    /\ UNCHANGED restOfP

\* stop_repl: the replication runtime is shut down; the Inputs already sent
\* stay on their way, an unfinished snapshot is lost
StopRepl ==
    /\ repl # "stopped"
    /\ repl' = "stopped"
    /\ upAtStop' = upstream
    /\ UNCHANGED <<upstream, snapPos, replPos, inputs, dfCount, dfOffset, snapshotted, restarts>>
    /\ UNCHANGED restOfP

ReplInit ==
    /\ GraphInit
    /\ op = "COUNT"
    /\ AggStart
    /\ RestStart

ReplNext ==
    \/ UpstreamInsert
    \/ StartRepl
    \/ SnapshotDone
    \/ Stream
    \/ BaseInput
    \/ StopRepl

ReplSpec == ReplInit /\ [][ReplNext]_vars

\* ------------------------------------------------------------------------
\* ALTER TABLE on a base table that holds rows (MirNode::adapt_base and the
\* resnapshot test)
\* ------------------------------------------------------------------------
\* the position of x in the sequence s, 0 if it is not in s
IndexOf(s, x) == IF \E i \in 1..Len(s) : s[i] = x THEN CHOOSE i \in 1..Len(s) : s[i] = x ELSE 0

\* adapt_base that puts the added columns in front of the existing ones
AdaptBaseAddedFirst(specs, added, removed) ==
    added \o SelectSeq(specs, LAMBDA cs : cs \notin Range(removed))

\* MirNode::adapt_base: new_column_specs = the existing specs without the
\* removed ones, chained with the added ones
AdaptBase(specs, added, removed) ==
    SelectSeq(specs, LAMBDA cs : cs \notin Range(removed)) \o added

\* the columns ever given to a table
EverCols(t) == Range(colSpecs[t]) \cup UNION {DOMAIN truth[t][i] : i \in 1..Len(truth[t])}

\* the rows of the test: id is the row's number, val is 'I am a teapot' (1)
TestRows(t) ==
    {vals \in [1..Len(upCols[t]) -> Vals \cup {Len(tblRows[t]) + 1}] :
        vals[1] = Len(tblRows[t]) + 1 /\ vals[2] = 1
        /\ \A j \in 3..Len(upCols[t]) : vals[j] \in Vals}

\* INSERT INTO t VALUES (...): one value per column of the upstream table
InsertRow ==
    \E t \in Tables : \E vals \in TestRows(t) :
        /\ Len(tblRows[t]) < MaxRows
        /\ tblRows' = [tblRows EXCEPT ![t] = Append(@, vals)]
        /\ truth' = [truth EXCEPT ![t] =
                Append(@, [c \in Range(upCols[t]) |-> vals[IndexOf(upCols[t], c)]])]
        /\ UNCHANGED <<colSpecs, upCols>>
        /\ UNCHANGED restOfT

\* ALTER TABLE t ADD COLUMN c: the base node is adapted, and the rows the table
\* holds get the default (null) for the new column
AlterAdd ==
    \E t \in AlteredTables : \E c \in NewCols \ EverCols(t) :
        /\ colSpecs' = [colSpecs EXCEPT ![t] = AdaptBase(@, <<c>>, <<>>)]
        /\ upCols' = [upCols EXCEPT ![t] = Append(@, c)]
        /\ tblRows' = [tblRows EXCEPT ![t] = [i \in 1..Len(@) |-> Append(@[i], Null)]]
        /\ UNCHANGED truth
        /\ UNCHANGED restOfT

\* ALTER TABLE t DROP COLUMN c: the base node is adapted, and the rows the table
\* holds lose the column's value
AlterDrop ==
    \E t \in AlteredTables : \E c \in Range(upCols[t]) \ Range(BaseCols) :
        /\ colSpecs' = [colSpecs EXCEPT ![t] = AdaptBase(@, <<>>, <<c>>)]
        /\ upCols' = [upCols EXCEPT ![t] = SelectSeq(@, LAMBDA x : x # c)]
        /\ tblRows' = [tblRows EXCEPT ![t] =
                [i \in 1..Len(@) |-> Without(@[i], IndexOf(upCols[t], c))]]
        /\ UNCHANGED truth
        /\ UNCHANGED restOfT

\* SELECT * FROM t as the view returns it: every row, its values named by the
\* columns of the base node
ViewRow(t, i) == [c \in Range(colSpecs[t]) |-> tblRows[t][i][IndexOf(colSpecs[t], c)]]

TablesInit ==
    /\ GraphInit
    /\ op = "COUNT"
    /\ AggStart
    /\ RestStart

TablesNext ==
    \/ InsertRow
    \/ AlterAdd
    \/ AlterDrop

TablesSpec == TablesInit /\ [][TablesNext]_vars

\* ------------------------------------------------------------------------
\* MirNode::add_column (noria/server/mir/src/node.rs); column indices count
\* from 0 as in the code, sequences from 1
\* ------------------------------------------------------------------------
GroupedTypes == {"Aggregation", "FilterAggregation", "Extremum"}
AppendTypes == {"Join", "Extremum", "Identity"}
MirTypes == {"Aggregation", "FilterAggregation", "Project", "Filter"} \cup AppendTypes
AddedCols == {"y", "z"}

\* the nodes of a type as the MIR builds them, without ancestors
MirNodesOf(type) ==
    IF type \in GroupedTypes
    THEN {[type |-> type, columns |-> g \o <<"agg">>, list |-> g, conds |-> <<>>] : g \in {<<>>, <<"x">>}}
    ELSE IF type = "Project"
    THEN {[type |-> type, columns |-> e \o l, list |-> e, conds |-> <<>>] :
            e \in {<<>>, <<"x">>}, l \in {<<>>, <<"lit">>}}
    ELSE IF type = "Join"
    THEN {[type |-> type, columns |-> pr, list |-> pr, conds |-> <<>>] : pr \in {<<"x">>, <<"x", "w">>}}
    ELSE {[type |-> type, columns |-> cs, list |-> <<>>, conds |-> <<>>] : cs \in {<<"x">>, <<"x", "w">>}}

\* the right-hand sides of a condition over n columns: a comparison with a
\* constant or with a column, or an IN list
FilterValues(n) ==
    {[rhs |-> k, rcol |-> NoPos] : k \in {"Constant", "In"}}
    \cup {[rhs |-> "Column", rcol |-> j] : j \in 0..(n - 1)}

\* a filter over a parent: it has the parent's columns and one condition on a
\* column of the parent
FiltersOver(parent) ==
    {[type |-> "Filter", columns |-> parent.columns, list |-> <<>>,
      conds |-> <<[col |-> i, rhs |-> v.rhs, rcol |-> v.rcol]>>] :
        i \in 0..(Len(parent.columns) - 1), v \in FilterValues(Len(parent.columns))}

RECURSIVE MirChains(_)
\* the chains of n nodes: the last one has no ancestor and is not a filter
MirChains(n) ==
    IF n = 1 THEN {<<nd>> : nd \in UNION {MirNodesOf(t) : t \in MirTypes \ {"Filter"}}}
    ELSE UNION {{<<nd>> \o ch : nd \in (UNION {MirNodesOf(t) : t \in MirTypes \ {"Filter"}})
                                        \cup FiltersOver(ch[1])}
                : ch \in MirChains(n - 1)}

RECURSIVE ColumnPos(_, _)
\* add_column::column_pos: Some(position) for the node types that place the
\* column, None (NoPos) for those that append it
ColumnPos(ch, i) ==
    LET node == ch[i] IN
    IF node.type \in {"Aggregation", "FilterAggregation"} THEN Len(node.columns) - 1
    ELSE IF node.type = "Project" THEN Len(node.list)
    ELSE IF node.type = "Filter" THEN ColumnPos(ch, i + 1)
    ELSE NoPos

\* Vec::insert(pos, c)
InsertAt(cols, pos, c) == SubSeq(cols, 1, pos) \o <<c>> \o SubSeq(cols, pos + 1, Len(cols))

\* insert_column that shifts only the conditions' own column
InsertColumnLhsOnly(node, pos, c) ==
    IF node.type \in GroupedTypes \cup {"Join", "Project"}
    THEN [node EXCEPT !.list = Append(@, c)]
    ELSE IF node.type = "Filter"
    THEN [node EXCEPT !.conds = [j \in 1..Len(@) |->
            [@[j] EXCEPT !.col = IF @ >= pos THEN @ + 1 ELSE @]]]
    ELSE node

\* MirNodeType::insert_column
InsertColumn(node, pos, c) ==
    IF node.type \in GroupedTypes \cup {"Join", "Project"}
    THEN [node EXCEPT !.list = Append(@, c)]
    ELSE IF node.type = "Filter"
    THEN [node EXCEPT !.conds = [j \in 1..Len(@) |->
            [col |-> IF @[j].col >= pos THEN @[j].col + 1 ELSE @[j].col,
             rhs |-> @[j].rhs,
             rcol |-> IF @[j].rhs = "Column" /\ @[j].rcol >= pos
                      THEN @[j].rcol + 1 ELSE @[j].rcol]]]
    ELSE node

\* the position add_column returns
AddColumnPos(ch, i) ==
    IF ColumnPos(ch, i) # NoPos THEN ColumnPos(ch, i) ELSE Len(ch[i].columns) + 1

\* the node after add_column(c)
AddColumnNode(ch, i, c) ==
    LET pos == ColumnPos(ch, i)
        placed == IF pos # NoPos
                  THEN [ch[i] EXCEPT !.columns = InsertAt(@, pos, c)]
                  ELSE [ch[i] EXCEPT !.columns = Append(@, c)]
    IN  InsertColumn(placed, AddColumnPos(ch, i), c)

\* MirNode::new for every node of a query, from the top down
BuildMir ==
    /\ chain = <<>>
    /\ \E n \in 1..MaxChain : chain' \in MirChains(n)
    /\ UNCHANGED <<nadds, mirRet>>
    /\ UNCHANGED restOfM

\* MirNode::add_column on one node; Vec::insert panics when the position is
\* beyond the end of the node's columns
AddColumn ==
    \E i \in 1..Len(chain) : \E c \in AddedCols \ Range(chain[i].columns) :
        /\ nadds < MaxAdds
        /\ nadds' = nadds + 1
        /\ IF ColumnPos(chain, i) > Len(chain[i].columns)
           THEN /\ mirRet' = [node |-> i, col |-> c, pos |-> NoPos, panicked |-> TRUE,
                              before |-> chain[i]]
                /\ UNCHANGED chain
           ELSE /\ mirRet' = [node |-> i, col |-> c, pos |-> AddColumnPos(chain, i),
                              panicked |-> FALSE, before |-> chain[i]]
                /\ chain' = [chain EXCEPT ![i] = AddColumnNode(chain, i, c)]
        /\ UNCHANGED restOfM

MirInit ==
    /\ GraphInit
    /\ op = "COUNT"
    /\ AggStart
    /\ RestStart

MirNext ==
    \/ BuildMir
    \/ AddColumn

MirSpec == MirInit /\ [][MirNext]_vars

\* ------------------------------------------------------------------------
\* Weak::check_compatibility (src/sql/reuse/weak.rs)
\* ------------------------------------------------------------------------
\* complex_predicate_implies(np, ep): the helper's verdict is an input
PredicateImplies(np, ep) == <<np, ep>> \in implies

\* the join check: every Join / LeftJoin edge of the existing query graph has
\* an edge of the same kind under the same key in the new one
JoinCompatible(new, ex) ==
    \A k \in EdgeKeys :
        ex.edges[k].kind \in {"Join", "LeftJoin"} => new.edges[k].kind = ex.edges[k].kind

\* the group-by check: every GroupBy edge of the existing query graph has a
\* GroupBy edge under the same key in the new one, over at least its columns
GroupByCompatible(new, ex) ==
    \A k \in EdgeKeys :
        ex.edges[k].kind = "GroupBy" =>
            /\ new.edges[k].kind = "GroupBy"
            /\ Cardinality(new.edges[k].cols) >= Cardinality(ex.edges[k].cols)
            /\ \A c \in ex.edges[k].cols : c \in new.edges[k].cols

\* the predicate check: every predicate of the existing query graph is implied
\* by a predicate of the new one on the same relation
PredicatesImplied(new, ex) ==
    \A r \in Rels : \A ep \in ex.preds[r] : \E np \in new.preds[r] : PredicateImplies(np, ep)

\* Weak::check_compatibility
CheckCompatibility(new, ex) ==
    IF ~JoinCompatible(new, ex) THEN "None"
    ELSE IF ~GroupByCompatible(new, ex) THEN "PrefixReuse"
    ELSE IF ~PredicatesImplied(new, ex) THEN "PrefixReuse"
    ELSE "DirectExtension"

\* reuse_candidates calls check_compatibility for a pair of query graphs
Check ==
    /\ reuse = "unset"
    /\ reuse' = CheckCompatibility(newQg, exQg)
    /\ UNCHANGED <<newQg, exQg, implies>>
    /\ UNCHANGED restOfW

\* any new query graph against any existing one
WeakInit ==
    /\ GraphInit
    /\ op = "COUNT"
    /\ AggStart
    /\ VoteStart /\ DomainStart /\ ReplayStart /\ ReplStart /\ TablesStart /\ MirStart
    /\ CountStarStart
    /\ newQg \in QueryGraphs
    /\ exQg \in QueryGraphs
    /\ implies \in SUBSET (Preds \X Preds)
    /\ reuse = "unset"

WeakNext == Check

WeakSpec == WeakInit /\ [][WeakNext]_vars

\* ------------------------------------------------------------------------
\* CountStarRewrite::rewrite_count_star
\* (src/noria/server/src/controller/sql/passes/count_star_rewrite.rs)
\* ------------------------------------------------------------------------
\* the columns of GROUP BY and those the WHERE clause refers to
AvoidCols(q) == q.groupBy \cup q.whereCols

\* a mutated column search: the schema's first column whatever is avoided
BogoColumnFirst(schema, i, avoid) == schema[1]

\* the while loop over schema_iter from position i: the first column not
\* avoided, NoCol when the iterator runs out
RECURSIVE BogoColumn(_, _, _)
BogoColumn(schema, i, avoid) ==
    IF i > Len(schema) THEN NoCol
    ELSE IF schema[i] \in avoid THEN BogoColumn(schema, i + 1, avoid)
    ELSE schema[i]

\* the closure rewrite_count_star on one call: [err, f]
RewriteCall(f, tables, avoid, schemas) ==
    IF tables = <<>> THEN [err |-> TRUE, f |-> f]
    ELSE IF f # CountStar THEN [err |-> FALSE, f |-> f]
    ELSE LET bogoTable == tables[1]
             bogoColumn == BogoColumn(schemas[bogoTable], 1, avoid)
         IN  IF bogoColumn = NoCol THEN [err |-> TRUE, f |-> f]
             ELSE [err |-> FALSE, f |-> Count(bogoTable, bogoColumn)]

\* one step of the loop over the field list
RewriteField(f, tables, avoid, schemas) ==
    IF f.f \in {"All", "AllInTable"} THEN [err |-> TRUE, f |-> f]
    ELSE IF f.f \in {"CountStar", "Count", "Sum"} THEN RewriteCall(f, tables, avoid, schemas)
    ELSE [err |-> FALSE, f |-> f]

\* the loop over the field list from position i; the first error ends it
RECURSIVE RewriteFields(_, _, _, _, _)
RewriteFields(fields, i, tables, avoid, schemas) ==
    IF i > Len(fields) THEN [status |-> "Ok", fields |-> fields]
    ELSE LET r == RewriteField(fields[i], tables, avoid, schemas)
         IN  IF r.err THEN [status |-> "Err", fields |-> fields]
             ELSE RewriteFields([fields EXCEPT ![i] = r.f], i + 1, tables, avoid, schemas)

\* rewrite_count_star
RewriteCountStar(q, schemas) ==
    IF q.kind = "Select"
    THEN LET r == RewriteFields(q.fields, 1, q.tables, AvoidCols(q), schemas)
         IN  IF r.status = "Err" THEN [status |-> "Err", q |-> NoQuery]
             ELSE [status |-> "Ok", q |-> [q EXCEPT !.fields = r.fields]]
    ELSE [status |-> "Ok", q |-> q]

\* the pass runs on a query
Rewrite ==
    /\ rewritten = NoResult
    /\ rewritten' = RewriteCountStar(sqlQuery, writeSchemas)
    /\ UNCHANGED <<sqlQuery, writeSchemas>>
    /\ UNCHANGED restOfC

\* any query over any write schemas
CountStarInit ==
    /\ GraphInit
    /\ op = "COUNT"
    /\ AggStart
    /\ VoteStart /\ DomainStart /\ ReplayStart /\ ReplStart /\ TablesStart /\ MirStart
    /\ WeakStart
    /\ sqlQuery \in SqlQueries
    /\ writeSchemas \in [SqlTables -> WriteSchemas]
    /\ rewritten = NoResult

CountStarNext == Rewrite

CountStarSpec == CountStarInit /\ [][CountStarNext]_vars

\* ------------------------------------------------------------------------
\* Properties of assign
\* ------------------------------------------------------------------------
\* the nodes strictly above n, the source excluded
Ancestors(n) == (UNION {Upstream(p) : p \in Range(parents[n])}) \ {Source}

\* C1: among the nodes that have a domain there is no directed path
\* a -> ... -> b -> ... -> c with domain(a) = domain(c) and domain(b) # domain(a).
C1_NoABAPath ==
    \A c \in Present : HasDomain(c) =>
        \A b \in Ancestors(c) : \A a \in Ancestors(b) :
            ~(domain[a] = domain[c] /\ domain[b] # domain[a])

\* assign has just placed a node one of whose parents offered a domain that
\* the a-b-a check had to refuse
C1_Witness ==
    /\ last.node # NoNode
    /\ \E p \in Range(parents[last.node]) :
        /\ ~IsSharder(p) /\ domain[p] # domain[last.node]
        /\ \E q \in Range(parents[last.node]) :
            /\ domain[q] # domain[p]
            /\ \E a \in Upstream(q) : ~IsSource(a) /\ domain[a] = domain[p]

\* C2: a shard merger or reader that assign has just processed holds the value
\* ndomains had before the step, and no other node holds that index.
C2_MergerReaderFresh ==
    (last.node # NoNode /\ (IsShardMerger(last.node) \/ IsReader(last.node))) =>
        /\ domain[last.node] = last.before
        /\ ndomains = last.before + 1
        /\ \A m \in Present : m # last.node => domain[m] # last.before

\* a reader has just been placed whose parent and a sibling both have a domain
C2_Witness ==
    /\ last.node # NoNode /\ IsReader(last.node)
    /\ \E p \in Range(parents[last.node]) :
        /\ HasDomain(p)
        /\ \E s \in Range(children[p]) : s # last.node /\ HasDomain(s)
                                          /\ ShardedByNone(s) = ShardedByNone(last.node)

\* the number of shards the two bases are compared on
ComparedShards(n, f) == 0..(Min(ShardsOrOne(n), ShardsOrOne(f)) - 1)

\* C3 as stated: with a friendly base found, the new base joins its domain
\* exactly when on no compared shard both are restricted with different
\* worker_volume labels.
C3_AsStated ==
    (last.node # NoNode /\ IsBase(last.node) /\ last.friend # NoNode) =>
        (domain[last.node] = domain[last.friend]
            <=> \A i \in ComparedShards(last.node, last.friend) :
                    \/ Restriction(last.node, i) = "none"
                    \/ Restriction(last.friend, i) = "none"
                    \/ Restriction(last.node, i) = Restriction(last.friend, i))

\* C3 amended: with a friendly base found, the new base joins its domain exactly
\* when on every compared shard the new base is unrestricted or carries the same
\* worker_volume as the friendly base; otherwise, and when no friendly base is
\* found, it gets a fresh domain.
C3_JoinsFriendlyBase ==
    (last.node # NoNode /\ IsBase(last.node)) =>
        IF last.friend # NoNode
           /\ \A i \in ComparedShards(last.node, last.friend) :
                \/ Restriction(last.node, i) = "none"
                \/ Restriction(last.node, i) = Restriction(last.friend, i)
        THEN domain[last.node] = domain[last.friend] /\ ndomains = last.before
        ELSE domain[last.node] = last.before /\ ndomains = last.before + 1

\* a base has just joined the domain of a friendly base, both restricted on a
\* shard they are compared on
C3_Witness ==
    /\ last.node # NoNode /\ IsBase(last.node) /\ last.friend # NoNode
    /\ domain[last.node] = domain[last.friend]
    /\ \E i \in ComparedShards(last.node, last.friend) :
        Restriction(last.node, i) # "none" /\ Restriction(last.friend, i) # "none"

\* the case C4 is stated about: a node other than base, reader, shard merger
\* whose only parent is neither the source nor a sharder
OnlyChild(n) ==
    /\ ~IsBase(n) /\ ~IsReader(n) /\ ~IsShardMerger(n)
    /\ Len(parents[n]) = 1
    /\ ~IsSource(parents[n][1]) /\ ~IsSharder(parents[n][1])
    /\ HasDomain(parents[n][1])

\* C4 as stated: such a node is assigned its parent's domain.
C4_AsStated ==
    (last.node # NoNode /\ OnlyChild(last.node)) =>
        domain[last.node] = domain[parents[last.node][1]]

\* C4 amended: such a node is assigned its parent's domain unless its name
\* starts with BOUNDARY_, in which case it gets a fresh domain.
C4_OnlyParentDomain ==
    (last.node # NoNode /\ OnlyChild(last.node)) =>
        IF boundary[last.node]
        THEN domain[last.node] = last.before /\ ndomains = last.before + 1
        ELSE domain[last.node] = domain[parents[last.node][1]] /\ ndomains = last.before

\* a node without the BOUNDARY_ prefix has just been placed with its only parent
C4_Witness ==
    /\ last.node # NoNode /\ OnlyChild(last.node) /\ ~boundary[last.node]
    /\ kind[last.node] = "internal"
    /\ domain[last.node] = domain[parents[last.node][1]]

\* C5: no node that has a domain shares it with a sharder that is its direct parent.
C5_SharderChildApart ==
    \A n \in Present : HasDomain(n) =>
        \A p \in Range(parents[n]) : IsSharder(p) => domain[n] # domain[p]

\* a child of a sharder has just been placed in the domain of another parent
\* or of a sibling
C5_Witness ==
    /\ last.node # NoNode
    /\ \E p \in Range(parents[last.node]) : IsSharder(p)
    /\ domain[last.node] # last.before
    /\ \/ \E q \in Range(parents[last.node]) : domain[q] = domain[last.node]
       \/ \E p \in Range(parents[last.node]) :
            \E s \in Range(children[p]) : s # last.node /\ domain[s] = domain[last.node]

\* a node that is not a base, a reader or a shard merger
PlainNode(n) == ~IsBase(n) /\ ~IsReader(n) /\ ~IsShardMerger(n)

\* the other children of n's direct parents that have a domain and n's shardedness
Siblings(n) ==
    {s \in UNION {Range(children[p]) : p \in Range(parents[n])} :
        s # n /\ HasDomain(s) /\ ShardedByNone(s) = ShardedByNone(n)}

\* C22: the domain assign has just given to a node that is not a base, a
\* reader or a shard merger is the domain of one of its direct parents, or the
\* domain of another child of one of its direct parents with the same
\* shardedness, or a fresh domain; never one held only by more distant relatives.
C22_ParentSiblingOrFresh ==
    (last.node # NoNode /\ PlainNode(last.node)) =>
        \/ domain[last.node] = last.before /\ ndomains = last.before + 1
        \/ /\ ndomains = last.before
           /\ \/ \E p \in Range(parents[last.node]) : domain[p] = domain[last.node]
              \/ \E s \in Siblings(last.node) : domain[s] = domain[last.node]

\* a node has just been placed in the domain of a sibling that none of its
\* parents holds, while a grandparent holds another domain
C22_Witness ==
    /\ last.node # NoNode /\ PlainNode(last.node)
    /\ ndomains = last.before
    /\ \A p \in Range(parents[last.node]) : domain[p] # domain[last.node]
    /\ \E s \in Siblings(last.node) : domain[s] = domain[last.node]
    /\ \E p \in Range(parents[last.node]) : \E g \in Range(parents[p]) :
        HasDomain(g) /\ domain[g] # domain[last.node]

\* C24: a node whose name starts with BOUNDARY_ and that is not a base, a
\* reader or a shard merger gets a fresh domain from assign: the index
\* ndomains had before, which no other node holds, also when a parent or a
\* sibling of its shardedness has a domain that passes the a-b-a check.
C24_BoundaryFresh ==
    (last.node # NoNode /\ PlainNode(last.node) /\ boundary[last.node]) =>
        /\ domain[last.node] = last.before
        /\ ndomains = last.before + 1
        /\ \A m \in Present : m # last.node => domain[m] # last.before

\* a BOUNDARY_ node has just been placed that has a parent, not a sharder, and
\* a sibling of its shardedness whose domains both pass the a-b-a check
C24_Witness ==
    /\ last.node # NoNode /\ PlainNode(last.node) /\ boundary[last.node]
    /\ \E p \in Range(parents[last.node]) :
        /\ ~IsSharder(p) /\ HasDomain(p) /\ ~AnyParents(last.node, domain[p])
    /\ \E s \in Siblings(last.node) : ~AnyParents(last.node, domain[s])
    /\ domain[last.node] = last.before

\* ------------------------------------------------------------------------
\* assign has returned Ok: its loop has run over all of topo_list
AssignReturned == pc = "migrate" /\ last.node # NoNode

\* C25: after assign returned Ok every node of topo_list has a domain, every
\* domain index a node holds is below ndomains, and ndomains is its value
\* before the call plus the number of nodes that got a fresh domain: the fresh
\* nodes hold the indices from the old ndomains on, each index once.
C25_DomainsCounted ==
    AssignReturned =>
        /\ \A n \in last.first..nn : HasDomain(n)
        /\ \A n \in Present : domain[n] >= 0 /\ domain[n] < ndomains
        /\ ndomains = last.start + Cardinality(last.fresh)
        /\ {domain[n] : n \in last.fresh} = last.start..(ndomains - 1)

\* assign has returned from a call over at least three nodes, two of which got
\* a fresh domain and one of which joined an existing domain
C25_Witness ==
    /\ AssignReturned
    /\ nn - last.first >= 2
    /\ last.start > 0
    /\ Cardinality(last.fresh) = 2
    /\ \E n \in last.first..nn : n \notin last.fresh /\ domain[n] < ndomains

\* ------------------------------------------------------------------------
\* Properties of the Aggregator
\* ------------------------------------------------------------------------
\* the records forward emitted for group g, in order
OutOf(g) == SelectSeq(out, LAMBDA rec : SubSeq(rec.row, 1, Cols - 1) = g)

\* the number of records of group g the source holds
RECURSIVE SrcCount(_, _)
SrcCount(g, S) ==
    IF S = {} THEN 0
    ELSE LET r == CHOOSE r \in S : TRUE
         IN  (IF GroupOf(r) = g THEN srcRows[r] ELSE 0) + SrcCount(g, S \ {r})

\* what the records of group g in an update add to the group's value
RECURSIVE NetOf(_, _)
NetOf(rs, g) ==
    IF rs = <<>> THEN 0
    ELSE LET rec == Head(rs)
             d == IF op = "COUNT" THEN 1 ELSE rec.row[Over + 1]
         IN  (IF GroupOf(rec.row) # g THEN 0 ELSE IF rec.pos THEN d ELSE 0 - d)
             + NetOf(Tail(rs), g)

\* C6 as stated: for every group of the update, forward emits Negative(prior
\* row) then Positive(new row) if the group has a materialized row, and only a
\* Positive, with no Negative, if it has none.
C6_AsStated ==
    (did = "process" /\ inp # <<>>) =>
        \A g \in BatchGroups(inp) :
            LET recs == OutOf(g) IN
            IF Find(matBefore, g) # {}
            THEN /\ Len(recs) = 2
                 /\ ~recs[1].pos /\ recs[1].row \in RowsOf(Find(matBefore, g))
                 /\ recs[2].pos
            ELSE Len(recs) = 1 /\ recs[1].pos

C8_AsStated ==
    /\ (did = "query" /\ qarg # NoGroup /\ SrcCount(qarg, Rows) = 0) =>
            (qarg \o <<Zero(op)>>) \notin qres
    /\ (did = "process") =>
            \A g \in BatchGroups(inp) :
                SrcCount(g, Rows) = 0 =>
                    \A i \in 1..Len(out) : ~(out[i].pos /\ out[i].row = g \o <<Zero(op)>>)

\* C9 as stated: once Positive(r) and then Negative(r) have been processed with
\* no other record of r's group in between, the materialized rows of r's group
\* are those from before Positive(r).
C9_AsStated ==
    undo.state = "done" => undo.after = undo.before

\* C10 as stated: the materialized output holds the rows that query returns
\* over the source's current records.
C10_AsStated ==
    RowsOf(mat) = QueryRows(op, srcRows, NoGroup)

\* the value forward read for group g: the materialized one, zero without one
PriorOf(g) ==
    IF Find(matBefore, g) = {} THEN Zero(op)
    ELSE (CHOOSE m \in Find(matBefore, g) : TRUE).row[Cols]

HistOf1 == SelectSeq(hist, LAMBDA w : w.row[1] = 1)
Ins(u) == [pos |-> TRUE, row |-> <<1, u>>]
Del(u) == [pos |-> FALSE, row |-> <<1, u>>]
Holds(n) == [r \in {<<1, "hello", n>>} |-> 1]

\* C11: with every update fully propagated, the reader's entry for article 1 is
\* empty before any vote, exactly (1, hello, 1) after one vote, exactly
\* (1, hello, 2) after a second vote and exactly (1, hello, 1) after the first
\* vote is deleted; it never holds two rows for the article.
C11_CountVotes ==
    Quiescent =>
        /\ HistOf1 = <<>> => ReaderLookup(1) = EmptyBag
        /\ \A u \in Users : HistOf1 = <<Ins(u)>> => ReaderLookup(1) = Holds(1)
        /\ \A u, w \in Users :
            /\ HistOf1 = <<Ins(u), Ins(w)>> => ReaderLookup(1) = Holds(2)
            /\ HistOf1 = <<Ins(u), Ins(w), Del(u)>> => ReaderLookup(1) = Holds(1)
        /\ BagSize(ReaderLookup(1), DOMAIN ReaderLookup(1)) <= 1

\* two votes and the deletion of the first have reached the reader
C11_Witness ==
    /\ Quiescent
    /\ \E u, w \in Users : HistOf1 = <<Ins(u), Ins(w), Del(u)>>
    /\ ReaderLookup(1) = Holds(1)

\* ------------------------------------------------------------------------
\* Properties of domains
\* ------------------------------------------------------------------------
\* the position of packet p in the arrival order of domain d
ArrivalOf(d, p) == CHOOSE i \in 1..Len(arrived[d]) : arrived[d][i] = p

\* C12: in every domain, the state changes and emissions caused by a packet
\* all come before those caused by any packet that arrived later in the
\* domain's inbox, whatever the other domains do meanwhile.
C12_RunToCompletion ==
    \A d \in Domains : \A i, j \in 1..Len(effects[d]) :
        i < j => ArrivalOf(d, effects[d][i].pkt) <= ArrivalOf(d, effects[d][j].pkt)

\* a domain has finished one packet and is in the middle of the next one, with
\* a third waiting, while another domain is in the middle of a packet too
C12_Witness ==
    \E d, e \in Domains :
        /\ d # e
        /\ Len(running[d]) = 1 /\ running[d][1].at > 1 /\ inbox[d] # <<>>
        /\ \E i \in 1..Len(effects[d]) :
            effects[d][i].what = "emit" /\ effects[d][i].pkt # running[d][1].pkt
        /\ running[e] # <<>>

\* ------------------------------------------------------------------------
\* Properties of replay
\* ------------------------------------------------------------------------
\* the replay requests and last pieces for key k between shard s and the
\* destination, the piece already received included
InFlight(k, s) ==
    Len(SelectSeq(reqChan[s], LAMBDA x : x = k))
    + Len(SelectSeq(dataChan[s], LAMBDA x : x.type = "ReplayPiece" /\ x.key = k /\ x.last))
    + (IF s \in gotLast[k] THEN 1 ELSE 0)

OnItsWay(row) == \E s \in SourceShards : \E i \in 1..Len(dataChan[s]) : dataChan[s][i] = Message(row)

CaughtUp == repl = "streaming" /\ replPos = upstream /\ inputs = <<>>

\* C16: once the replicator has started and caught up, the view holds as many
\* copies of the row as were inserted upstream, whenever they were inserted;
\* while the replicator is stopped the view holds no write made since the stop.
C16_ExactlyOnce ==
    /\ CaughtUp => dfCount = upstream
    /\ repl = "stopped" => dfCount <= upAtStop

\* the replicator has caught up after a stop and a restart, with rows inserted
\* before the snapshot and rows inserted since the stop
C16_Witness ==
    /\ CaughtUp
    /\ restarts = 2
    /\ snapPos > 0
    /\ upstream > upAtStop
    /\ dfCount = upstream

ColumnAt(cols, idx) == IF idx >= 0 /\ idx < Len(cols) THEN cols[idx + 1] ELSE ""

\* C18 as stated: the index add_column(c) returned is the index at which c sits
\* in the node's columns after the call, for every node type.
C18_AsStated ==
    (mirRet.node # 0 /\ ~mirRet.panicked) =>
        ColumnAt(chain[mirRet.node].columns, mirRet.pos) = mirRet.col

\* an index after a column was inserted at pos
Shifted(idx, pos) == IF idx >= pos THEN idx + 1 ELSE idx

\* add_column was last called on a filter whose parent is an aggregation with
\* the column list the filter had
FilterOverAggregation ==
    /\ mirRet.node # 0 /\ ~mirRet.panicked
    /\ mirRet.before.type = "Filter"
    /\ mirRet.node < Len(chain)
    /\ chain[mirRet.node + 1].type = "Aggregation"
    /\ chain[mirRet.node + 1].columns = mirRet.before.columns

\* C23: add_column on a filter whose parent is an aggregation with the same
\* column list puts the new column just before the aggregate (last) column,
\* adds one to every condition's column index and to every column index on
\* the right-hand side of a comparison that is at or after that position, and
\* leaves smaller indices and the other right-hand sides as they were.
C23_FilterShifts ==
    FilterOverAggregation =>
        LET old == mirRet.before
            new == chain[mirRet.node]
            at == Len(old.columns) - 1
        IN  /\ new.columns = SubSeq(old.columns, 1, at) \o <<mirRet.col>>
                                \o <<old.columns[Len(old.columns)]>>
            /\ Len(new.conds) = Len(old.conds)
            /\ \A j \in 1..Len(old.conds) :
                /\ new.conds[j].col = Shifted(old.conds[j].col, at)
                /\ new.conds[j].rhs = old.conds[j].rhs
                /\ new.conds[j].rcol =
                        (IF old.conds[j].rhs = "Column"
                         THEN Shifted(old.conds[j].rcol, at) ELSE old.conds[j].rcol)

\* the filter x = (column 1) over [x, agg] has taken a column: the condition
\* is still on column 0 and now compares with column 2
C23_Witness ==
    /\ FilterOverAggregation
    /\ Len(mirRet.before.columns) = 2
    /\ mirRet.before.conds = <<[col |-> 0, rhs |-> "Column", rcol |-> 1]>>
    /\ chain[mirRet.node].conds = <<[col |-> 0, rhs |-> "Column", rcol |-> 2]>>
    /\ chain[mirRet.node].columns[2] = mirRet.col

\* ------------------------------------------------------------------------
\* ------------------------------------------------------------------------
\* Properties of Weak::check_compatibility
\* ------------------------------------------------------------------------
\* the number of the three checks that pass
ChecksPassed ==
    (IF JoinCompatible(newQg, exQg) THEN 1 ELSE 0)
    + (IF GroupByCompatible(newQg, exQg) THEN 1 ELSE 0)
    + (IF PredicatesImplied(newQg, exQg) THEN 1 ELSE 0)

\* C19 as stated: check_compatibility returns DirectExtension when all three
\* checks pass, PrefixReuse when at least one but not all of them pass, and no
\* reuse only when none passes.
C19_AsStated ==
    reuse # "unset" =>
        /\ ChecksPassed = 3 => reuse = "DirectExtension"
        /\ ChecksPassed \in {1, 2} => reuse = "PrefixReuse"
        /\ reuse = "None" => ChecksPassed = 0

\* ------------------------------------------------------------------------
\* Properties of rewrite_count_star
\* ------------------------------------------------------------------------
\* the positions of the first table's write schema whose column is named
\* neither in GROUP BY nor in WHERE
FreePositions ==
    {i \in 1..Len(writeSchemas[sqlQuery.tables[1]]) :
        /\ writeSchemas[sqlQuery.tables[1]][i] \notin sqlQuery.groupBy
        /\ writeSchemas[sqlQuery.tables[1]][i] \notin sqlQuery.whereCols}

HasCountStar == \E i \in 1..Len(sqlQuery.fields) : sqlQuery.fields[i] = CountStar

====
